---- MODULE Spec2Model ----
(***************************************************************************)
(* Model of the fusion search of ox-genetic-algorithm.                     *)
(*                                                                         *)
(*   edith3.py : get_fitness and the __main__ search of one case           *)
(*   edith.py  : Population / Sequence (the pandas variant) of one case    *)
(*                                                                         *)
(* A Python str is a sequence of one-character strings, so that the        *)
(* sentinels "_unfit" and "_fit" are ordinary strings that can be          *)
(* concatenated with and compared to any other string, as in the code.     *)
(*                                                                         *)
(* prog selects what a behaviour runs:                                     *)
(*   "fitness" : one call of get_fitness on inputs drawn from bounded sets *)
(*   "edith3"  : edith3.py on one case                                     *)
(*   "edith"   : edith.py on one case                                      *)
(***************************************************************************)
EXTENDS Integers, Sequences, FiniteSets, TLC

VARIABLES
    prog,             \* which program this behaviour runs
    pc,               \* position in the program
    genes,            \* the case's gene pairs, a list of <<A, B>>
    chromosomes,      \* the working set
    survivors,        \* the survivor pool
    age,              \* rounds of the age loop performed so far
    answer,           \* the string printed for the case
    lineage,          \* history: for each chromosome, the gene indices that built it
    survivorLineage,  \* history: for each survivor, the gene indices that built it
    pool,             \* history: every string that ever entered the survivor pool
    expanded,         \* history: the chromosomes combined with a gene in the last round
    skipped,          \* history: the chromosomes the last round left uncombined
    agesArg,          \* edith.py: the ages argument given to run()
    call,             \* "fitness": the arguments of the call
    ret,              \* "fitness": the value returned
    guarded           \* "fitness": whether the divergence test of the call fired

vars == <<prog, pc, genes, chromosomes, survivors, age, answer, lineage,
          survivorLineage, pool, expanded, skipped, agesArg, call, ret,
          guarded>>

----------------------------------------------------------------------------
(* Bounds of the model. *)

\* total number of characters of one case's gene pairs
MaxChars == 6
\* longest sequence / dominance / gene token drawn for a single get_fitness call
MaxSeqLen == 1
MaxDomLen == 1
MaxTokLen == 2
\* largest ages argument given to run() of edith.py
MaxAgesArg == 2
\* largest number of ages for which a search is recomputed
MaxBudget == 10

Alphabet == {"a", "b"}

----------------------------------------------------------------------------
(* Strings. *)

EMPTY == <<>>

\* edith3.py:18, edith.py:145
UNFIT == <<"_", "u", "n", "f", "i", "t">>
\* edith.py:146
FIT == <<"_", "f", "i", "t">>
\* edith.py:365, edith3.py:97
IMPOSSIBLE == <<"I", "M", "P", "O", "S", "S", "I", "B", "L", "E">>

\* code points, for Python's comparison of str
CharCode(c) ==
    CASE c = "B" -> 66 [] c = "E" -> 69 [] c = "I" -> 73 [] c = "L" -> 76
      [] c = "M" -> 77 [] c = "O" -> 79 [] c = "P" -> 80 [] c = "S" -> 83
      [] c = "_" -> 95 [] c = "a" -> 97 [] c = "b" -> 98 [] c = "c" -> 99
      [] c = "d" -> 100 [] c = "e" -> 101 [] c = "f" -> 102 [] c = "i" -> 105
      [] c = "n" -> 110 [] c = "r" -> 114 [] c = "t" -> 116 [] c = "u" -> 117

Min(x, y) == IF x <= y THEN x ELSE y
Max(x, y) == IF x >= y THEN x ELSE y

\* str.startswith
startswith(a, b) == Len(b) <= Len(a) /\ SubSeq(a, 1, Len(b)) = b

\* a[n:]
SliceFrom(a, n) == SubSeq(a, n + 1, Len(a))

\* s < t on str
StrLess(s, t) ==
    \E i \in 1..(Min(Len(s), Len(t)) + 1) :
        /\ SubSeq(s, 1, i - 1) = SubSeq(t, 1, i - 1)
        /\ \/ i > Len(s) /\ i <= Len(t)
           \/ i <= Len(s) /\ i <= Len(t) /\ CharCode(s[i]) < CharCode(t[i])

\* key=len
LenLess(s, t) == Len(s) < Len(t)

\* the key without its second component
LenLexLess_length_only(s, t) == Len(s) < Len(t)

\* key=lambda s: (len(s), s)
LenLexLess(s, t) == Len(s) < Len(t) \/ (Len(s) = Len(t) /\ StrLess(s, t))

\* sorted(): stable, ascending. Rank(i) is the place of s[i] in the result:
\* after every element that compares smaller, and after the earlier
\* elements that compare equal.
\* key names the sort key: "len" or "len_str".
KeyLess(key, x, y) ==
    IF key = "len" THEN LenLess(x, y) ELSE LenLexLess(x, y)

sorted(s, key) ==
    LET Rank(i) == 1 + Cardinality({j \in 1..Len(s) :
                        \/ KeyLess(key, s[j], s[i])
                        \/ (~KeyLess(key, s[i], s[j]) /\ j < i)})
    IN  [k \in 1..Len(s) |-> s[CHOOSE i \in 1..Len(s) : Rank(i) = k]]

Range(s) == {s[i] : i \in 1..Len(s)}

Strs(n) == UNION {[1..k -> Alphabet] : k \in 0..n}
Tokens(n) == Strs(n) \ {EMPTY}

\* n copies of "a"
Run(n) == [i \in 1..n |-> "a"]

----------------------------------------------------------------------------
(* edith3.py: get_fitness. *)

\* the list ['', '']
NoDominance == <<EMPTY, EMPTY>>

\* edith3.py:24, the test "Probably diverging"
diverging(sequence, a) == Len(a) > 10 * Len(sequence)

\* get_fitness with the accumulated sequence left out of a closed or
\* A-dominant result
get_fitness_forgets_sequence(sequence, dominance, new_genes) ==
    LET a == dominance[1] \o new_genes[1]
        b == dominance[2] \o new_genes[2]
    IN  IF diverging(sequence, a) THEN <<UNFIT, NoDominance>>
        ELSE IF startswith(a, b)
             THEN <<b, <<SliceFrom(a, Len(b)), EMPTY>>>>
        ELSE IF startswith(b, a)
             THEN <<sequence \o a, <<EMPTY, SliceFrom(b, Len(a))>>>>
        ELSE <<UNFIT, NoDominance>>

\* get_fitness appending the longer of a and b
get_fitness_appends_longer(sequence, dominance, new_genes) ==
    LET a == dominance[1] \o new_genes[1]
        b == dominance[2] \o new_genes[2]
    IN  IF diverging(sequence, a) THEN <<UNFIT, NoDominance>>
        ELSE IF startswith(a, b)
             THEN <<sequence \o a, <<SliceFrom(a, Len(b)), EMPTY>>>>
        ELSE IF startswith(b, a)
             THEN <<sequence \o b, <<EMPTY, SliceFrom(b, Len(a))>>>>
        ELSE <<UNFIT, NoDominance>>

\* get_fitness without the test of lines 28-29
get_fitness_one_sided(sequence, dominance, new_genes) ==
    LET a == dominance[1] \o new_genes[1]
        b == dominance[2] \o new_genes[2]
    IN  IF diverging(sequence, a) THEN <<UNFIT, NoDominance>>
        ELSE IF startswith(a, b)
             THEN <<sequence \o b, <<SliceFrom(a, Len(b)), EMPTY>>>>
        ELSE <<UNFIT, NoDominance>>

\* get_fitness appending what is left of a after b
get_fitness_appends_tail(sequence, dominance, new_genes) ==
    LET a == dominance[1] \o new_genes[1]
        b == dominance[2] \o new_genes[2]
    IN  IF diverging(sequence, a) THEN <<UNFIT, NoDominance>>
        ELSE IF startswith(a, b)
             THEN <<sequence \o SliceFrom(a, Len(b)),
                    <<SliceFrom(a, Len(b)), EMPTY>>>>
        ELSE IF startswith(b, a)
             THEN <<sequence \o a, <<EMPTY, SliceFrom(b, Len(a))>>>>
        ELSE <<UNFIT, NoDominance>>

\* get_fitness keeping the tail of a from one character too early
get_fitness_tail_off_by_one(sequence, dominance, new_genes) ==
    LET a == dominance[1] \o new_genes[1]
        b == dominance[2] \o new_genes[2]
    IN  IF diverging(sequence, a) THEN <<UNFIT, NoDominance>>
        ELSE IF startswith(a, b)
             THEN <<sequence \o b, <<SliceFrom(a, Len(b) - 1), EMPTY>>>>
        ELSE IF startswith(b, a)
             THEN <<sequence \o a, <<EMPTY, SliceFrom(b, Len(a))>>>>
        ELSE <<UNFIT, NoDominance>>

\* get_fitness leaving out what is left of a after b
get_fitness_forgets_tail(sequence, dominance, new_genes) ==
    LET a == dominance[1] \o new_genes[1]
        b == dominance[2] \o new_genes[2]
    IN  IF diverging(sequence, a) THEN <<UNFIT, NoDominance>>
        ELSE IF startswith(a, b)
             THEN <<sequence \o b, NoDominance>>
        ELSE IF startswith(b, a)
             THEN <<sequence \o a, <<EMPTY, SliceFrom(b, Len(a))>>>>
        ELSE <<UNFIT, NoDominance>>

\* edith3.py:21-30. The result is the tuple <<string, <<dominance A, dominance B>>>>.
get_fitness(sequence, dominance, new_genes) ==
    LET a == dominance[1] \o new_genes[1]
        b == dominance[2] \o new_genes[2]
    IN  IF diverging(sequence, a) THEN <<UNFIT, NoDominance>>
        ELSE IF startswith(a, b)
             THEN <<sequence \o b, <<SliceFrom(a, Len(b)), EMPTY>>>>
        ELSE IF startswith(b, a)
             THEN <<sequence \o a, <<EMPTY, SliceFrom(b, Len(a))>>>>
        ELSE <<UNFIT, NoDominance>>

----------------------------------------------------------------------------
(* edith.py: Population.get_fitness. *)

\* edith.py:251-276, on the row <<a, b>>
Population_get_fitness(a, b) ==
    IF a = b THEN FIT
    ELSE IF startswith(a, b) THEN SliceFrom(a, Len(b))
    ELSE UNFIT

----------------------------------------------------------------------------
(* One call of get_fitness, on arguments drawn from bounded sets. *)

\* the longest dominance that, with a one-character gene, still passes the
\* divergence test of a one-character sequence, and the shortest that fails it
ProbeDominances ==
    {<<Run(9), EMPTY>>, <<Run(10), EMPTY>>, <<EMPTY, Run(10)>>, <<Run(9), Run(9)>>}

Sequences == Strs(MaxSeqLen) \cup {UNFIT \o s : s \in Strs(MaxSeqLen)}
Dominances == (Strs(MaxDomLen) \X Strs(MaxDomLen)) \cup ProbeDominances
GenePairs == Tokens(MaxTokLen) \X Tokens(MaxTokLen)

Calls == [sequence : Sequences, dominance : Dominances, new_genes : GenePairs]

\* the strings a and b that get_fitness compares (edith3.py:22-23)
CallA == call.dominance[1] \o call.new_genes[1]
CallB == call.dominance[2] \o call.new_genes[2]

NoRun ==
    /\ genes = <<>> /\ chromosomes = <<>> /\ survivors = <<>> /\ age = 0
    /\ answer = EMPTY /\ lineage = <<>> /\ survivorLineage = <<>>
    /\ pool = {} /\ expanded = <<>> /\ skipped = <<>> /\ agesArg = 0

NoCall == call = <<>> /\ ret = <<>> /\ guarded = FALSE

InitFitness ==
    /\ prog = "fitness" /\ pc = "call"
    /\ call \in Calls /\ ret = <<>> /\ guarded = FALSE
    /\ NoRun

\* edith3.py:21-30
CallFitness ==
    /\ prog = "fitness" /\ pc = "call"
    /\ ret' = get_fitness(call.sequence, call.dominance, call.new_genes)
    /\ guarded' = diverging(call.sequence, CallA)
    /\ pc' = "returned"
    /\ UNCHANGED <<prog, genes, chromosomes, survivors, age, answer, lineage,
                   survivorLineage, pool, expanded, skipped, agesArg, call>>

\* edith.py:242-249, the two dominances of the row <<a, b>>
CallDominance ==
    /\ prog = "fitness" /\ pc = "call"
    /\ ret' = <<Population_get_fitness(CallA, CallB),
                Population_get_fitness(CallB, CallA)>>
    /\ guarded' = FALSE
    /\ pc' = "dominance"
    /\ UNCHANGED <<prog, genes, chromosomes, survivors, age, answer, lineage,
                   survivorLineage, pool, expanded, skipped, agesArg, call>>

----------------------------------------------------------------------------
(* The cases: lists of gene pairs with at most MaxChars characters in all. *)

PairsWithin(budget) ==
    {p \in Tokens(budget - 1) \X Tokens(budget - 1) :
        Len(p[1]) + Len(p[2]) <= budget}

RECURSIVE GeneLists(_)
GeneLists(budget) ==
    {<<>>} \cup
    UNION {{<<p>> \o rest : rest \in GeneLists(budget - Len(p[1]) - Len(p[2]))} :
            p \in PairsWithin(budget)}

Str_a == <<"a">>
Str_ab == <<"a", "b">>
Str_ba == <<"b", "a">>
Str_abab == <<"a", "b", "a", "b">>
Str_dear == <<"d", "e", "a", "r">>
Str_b == <<"b">>
Str_aa == <<"a", "a">>
Str_aaa == <<"a", "a", "a">>
Str_aaaaaa == <<"a", "a", "a", "a", "a", "a">>
Str_c == <<"c">>
Str_cd == <<"c", "d">>

\* Longer cases: the self-equal pair of the documentation; a case whose
\* survivors close in two different rounds; and one whose later survivors
\* are the shorter ones, two of them of the same length; a case in which a
\* round combines some open candidates and leaves others out; the case of
\* the documentation in which no candidate closes; and a case whose first
\* survivor is longer than one that closes two ages later.
Scenarios ==
    {<< <<Str_dear, Str_dear>> >>,
     << <<Str_ab, Str_ab>>, <<Str_a, Str_ab>>, <<Str_ba, Str_a>> >>,
     << <<Str_abab, Str_abab>>, <<Str_b, Str_ba>>, <<Str_ab, Str_b>>,
        <<Str_a, Str_ab>>, <<Str_ba, Str_a>> >>,
     << <<Str_a, Str_aa>>, <<Str_aaa, Str_a>> >>,
     << <<Str_ab, Str_a>>, <<Str_cd, Str_c>> >>,
     << <<Str_a, Str_aa>>, <<Str_aaa, Str_a>>, <<Str_aaaaaa, Str_aaaaaa>> >>}

Cases == (GeneLists(MaxChars) \ {<<>>}) \cup Scenarios

\* edith3.py:49-52: a line of the case is the list of its whitespace-
\* separated tokens, however many there are. Lines(k) are the lines of k
\* one-character tokens.
Lines(k) == [1..k -> Tokens(1)]

\* the lines that do not hold two tokens: none, one, or three
OddLines == Lines(0) \cup Lines(1) \cup Lines(3)

\* cases of one or two lines, one of them without exactly two tokens
MalformedCases ==
    {<<l>> : l \in OddLines}
        \cup {<<g, l>> : g \in Lines(2), l \in OddLines}
        \cup {<<l, g>> : g \in Lines(2), l \in OddLines}

\* every line of the case holds exactly two tokens
WellFormed(gs) == \A i \in 1..Len(gs) : Len(gs[i]) = 2

----------------------------------------------------------------------------
(* edith3.py: the search of one case. *)

\* edith3.py:36
ages == 8

\* the test with line 66 (and 92) left out
is_survivor_one_sided(chromosome) ==
    /\ chromosome[1] # UNFIT
    /\ chromosome[2][1] = EMPTY

\* edith3.py:64-66 and 90-92
is_survivor(chromosome) ==
    /\ chromosome[1] # UNFIT
    /\ chromosome[2][1] = EMPTY
    /\ chromosome[2][2] = EMPTY

\* the condition with <= for <
may_mutate_or_equal(c, survs) ==
    \/ survs = <<>>
    \/ Len(c[1]) <= Len(sorted(survs, "len")[1])

\* the condition against the longest survivor instead of the shortest
may_mutate_vs_longest(c, survs) ==
    \/ survs = <<>>
    \/ Len(c[1]) < Len(sorted(survs, "len")[Len(survs)])

\* the condition that combines nothing once a survivor is known
may_mutate_until_survivor(c, survs) == survs = <<>>

\* edith3.py:78-79, the condition under which chromosome c is combined with a gene
may_mutate(c, survs) ==
    \/ survs = <<>>
    \/ Len(c[1]) < Len(sorted(survs, "len")[1])

\* edith3.py:85
is_kept(chromosome) == chromosome[1] # UNFIT

Indices(s) == [i \in 1..Len(s) |-> i]

InitEdith3 ==
    /\ prog = "edith3" /\ pc = "seed"
    /\ genes \in Cases \cup MalformedCases
    /\ chromosomes = <<>> /\ survivors = <<>> /\ age = 0 /\ answer = EMPTY
    /\ lineage = <<>> /\ survivorLineage = <<>> /\ pool = {} /\ expanded = <<>>
    /\ skipped = <<>> /\ agesArg = 0
    /\ NoCall

\* Operators below take the lists they combine as parameters: each list is
\* then computed once per step.

Column(s, field) == [k \in 1..Len(s) |-> s[k][field]]

\* the strings of a list of closed mutations (edith3.py:62 and 88)
Strings(s) == [k \in 1..Len(s) |-> s[k].chromosome[1]]

\* edith3.py:53-58, with the index of the gene that seeded each chromosome
seeds ==
    [i \in 1..Len(genes) |->
        [chromosome |-> get_fitness(EMPTY, NoDominance, genes[i]),
         chain |-> <<i>>]]

\* edith3.py:60-67
Seed3Collect(seeded, closed) ==
    /\ chromosomes' = Column(seeded, "chromosome")
    /\ lineage' = Column(seeded, "chain")
    /\ survivors' = Strings(closed)
    /\ survivorLineage' = Column(closed, "chain")
    /\ pool' = Range(Strings(closed))

Seed3Keep(seeded) ==
    Seed3Collect(seeded, SelectSeq(seeded, LAMBDA m : is_survivor(m.chromosome)))

\* edith3.py:22-23: new_genes[0] or new_genes[1] of a line with fewer than
\* two tokens raises IndexError, which nothing catches
Raise3 ==
    /\ prog = "edith3" /\ pc = "seed"
    /\ \E i \in 1..Len(genes) : Len(genes[i]) < 2
    /\ pc' = "error"
    /\ UNCHANGED <<prog, genes, chromosomes, survivors, age, answer, lineage,
                   survivorLineage, pool, expanded, skipped, agesArg, call,
                   ret, guarded>>

\* edith3.py:53-67
Seed3 ==
    /\ prog = "edith3" /\ pc = "seed"
    /\ \A i \in 1..Len(genes) : Len(genes[i]) >= 2
    /\ Seed3Keep(SelectSeq(seeds, LAMBDA m : TRUE))
    /\ expanded' = <<>> /\ skipped' = <<>>
    /\ pc' = "loop"
    /\ UNCHANGED <<prog, genes, age, answer, agesArg, call, ret, guarded>>

\* edith3.py:72-81: every chromosome that passes the condition, with every
\* gene; parents lists the indices of those chromosomes
mutations(parents, n) ==
    [k \in 1..(Len(parents) * n) |->
        LET i == parents[((k - 1) \div n) + 1]
            j == ((k - 1) % n) + 1
        IN  [chromosome |-> get_fitness(chromosomes[i][1], chromosomes[i][2],
                                        genes[j]),
             chain |-> lineage[i] \o <<j>>]]

\* edith3.py:82-93, the assignments
Age3Collect(parents, kept, closed) ==
    /\ chromosomes' = Column(kept, "chromosome")
    /\ lineage' = Column(kept, "chain")
    /\ survivors' = survivors \o Strings(closed)
    /\ survivorLineage' = survivorLineage \o Column(closed, "chain")
    /\ pool' = pool \cup Range(Strings(closed))
    /\ expanded' = [k \in 1..Len(parents) |-> chromosomes[parents[k]]]
    /\ skipped' = SelectSeq(chromosomes,
                            LAMBDA c : ~may_mutate(c, survivors))

\* edith3.py:87-93
Age3Keep(parents, kept) ==
    Age3Collect(parents, kept,
                SelectSeq(kept, LAMBDA m : is_kept(m.chromosome)
                                           /\ is_survivor(m.chromosome)))

\* edith3.py:82-86
Age3Mutate(parents) ==
    Age3Keep(parents, SelectSeq(mutations(parents, Len(genes)),
                                LAMBDA m : is_kept(m.chromosome)))

\* edith3.py:71-93, one age
Age3 ==
    /\ prog = "edith3" /\ pc = "loop" /\ age < ages
    /\ Age3Mutate(SelectSeq(Indices(chromosomes),
                            LAMBDA i : may_mutate(chromosomes[i], survivors)))
    /\ age' = age + 1
    /\ UNCHANGED <<prog, pc, genes, answer, agesArg, call, ret, guarded>>

\* the selection taking a survivor only when there are several
Select3Pick_needs_two(ordered) ==
    /\ survivors' = ordered
    /\ answer' = IF Len(ordered) > 1 THEN ordered[1] ELSE IMPOSSIBLE

\* edith3.py:96-97
Select3Pick(ordered) ==
    /\ survivors' = ordered
    /\ answer' = IF ordered # <<>> THEN ordered[1] ELSE IMPOSSIBLE

\* edith3.py:95-101
Select3 ==
    /\ prog = "edith3" /\ pc = "loop" /\ age = ages
    /\ Select3Pick(SelectSeq(sorted(survivors, "len_str"), LAMBDA x : TRUE))
    /\ pc' = "done"
    /\ UNCHANGED <<prog, genes, chromosomes, age, lineage, survivorLineage,
                   pool, expanded, skipped, agesArg, call, ret, guarded>>

----------------------------------------------------------------------------
(* edith.py: Population and Sequence on one case.                          *)
(* A row of the chromosomes and survivors frames is a record of its        *)
(* columns A, B, "A Dominance" and "B Dominance"; the row labels and the   *)
(* temporary length column, which no result depends on, are left out.      *)

Row(a, b) ==
    [A |-> a, B |-> b,
     A_DOMINANCE |-> Population_get_fitness(a, b),
     B_DOMINANCE |-> Population_get_fitness(b, a)]

\* edith.py:232-249, __calculate_dominance, on mutations <<A, B, chain>>
calculate_dominance(rows) ==
    [k \in 1..Len(rows) |->
        [chromosome |-> Row(rows[k].A, rows[k].B), chain |-> rows[k].chain]]

\* edith.py:287-289, a row that __remove_unfit drops
is_unfit(row) == row.A_DOMINANCE = UNFIT /\ row.B_DOMINANCE = UNFIT

\* edith.py:307-309, a row that __remove_fit moves to the survivors
is_fit(row) == row.A_DOMINANCE = FIT \/ row.B_DOMINANCE = FIT

\* edith.py:171
same_first(gene) == gene[1][1] = gene[2][1]

\* edith.py:222-225; NaN, which compares False with everything, is -1 here
\* and is tested for in should_stop
shortest_survivor(survs) ==
    IF survs = <<>> THEN -1
    ELSE Len(sorted(Column(survs, "A"), "len")[1])

\* edith.py:227-230, on a non-empty frame
shortest_chromosome(chroms) == Len(sorted(Column(chroms, "A"), "len")[1])

\* the breaks of the age loop, the second taken as soon as a survivor exists
should_stop_at_survivor(chroms, survs) ==
    \/ chroms = <<>>
    \/ survs # <<>>

\* edith.py:402-407, the two breaks of the age loop
should_stop(chroms, survs) ==
    \/ chroms = <<>>
    \/ /\ survs # <<>>
       /\ shortest_survivor(survs) < shortest_chromosome(chroms)

\* edith.py:439, the number of ages given to Sequence
PopAges == Len(genes)

\* edith.py:170-172, the genes whose two strings start with the same character
founders ==
    SelectSeq([i \in 1..Len(genes) |->
                  [A |-> genes[i][1], B |-> genes[i][2], chain |-> <<i>>,
                   first |-> same_first(genes[i])]],
              LAMBDA m : m.first)

\* edith.py:315-353, mutate: every chromosome joined with every gene
mutate(n) ==
    [k \in 1..(Len(chromosomes) * n) |->
        LET i == ((k - 1) \div n) + 1
            j == ((k - 1) % n) + 1
        IN  [A |-> chromosomes[i].A \o genes[j][1],
             B |-> chromosomes[i].B \o genes[j][2],
             chain |-> lineage[i] \o <<j>>]]

\* edith.py:295-313, __remove_fit
FitCollect(open, fit) ==
    /\ chromosomes' = Column(open, "chromosome")
    /\ lineage' = Column(open, "chain")
    /\ survivors' = survivors \o Column(fit, "chromosome")
    /\ survivorLineage' = survivorLineage \o Column(fit, "chain")
    /\ pool' = pool \cup {fit[k].chromosome.A : k \in 1..Len(fit)}

\* edith.py:278-313, __remove_unfit then __remove_fit
FitRemove(alive) ==
    FitCollect(SelectSeq(alive, LAMBDA m : ~is_fit(m.chromosome)),
               SelectSeq(alive, LAMBDA m : is_fit(m.chromosome)))

\* edith.py:209-220, fit
fit(rows) ==
    FitRemove(SelectSeq(calculate_dominance(rows),
                        LAMBDA m : ~is_unfit(m.chromosome)))

InitEdith ==
    /\ prog = "edith" /\ pc = "construct"
    /\ genes \in Cases
    /\ agesArg \in 1..MaxAgesArg
    /\ chromosomes = <<>> /\ survivors = <<>> /\ age = 0 /\ answer = EMPTY
    /\ lineage = <<>> /\ survivorLineage = <<>> /\ pool = {} /\ expanded = <<>>
    /\ skipped = <<>>
    /\ NoCall

\* edith.py:438-439, Genes, Sequence.__init__ and Population.__init__
\* (edith.py:151-173); run() skips the loop when no chromosome is left
\* (edith.py:397)
Construct ==
    /\ prog = "edith" /\ pc = "construct"
    /\ fit(founders)
    /\ expanded' = <<>> /\ skipped' = <<>>
    /\ pc' = IF chromosomes' = <<>> THEN "finish" ELSE "run"
    /\ age' = 0
    /\ UNCHANGED <<prog, genes, answer, agesArg, call, ret, guarded>>

\* edith.py:398-407, one age of Sequence.run
AgePop ==
    /\ prog = "edith" /\ pc = "run" /\ age < PopAges
    /\ fit(SelectSeq(mutate(Len(genes)), LAMBDA m : TRUE))
    /\ expanded' = chromosomes /\ skipped' = <<>>
    /\ age' = age + 1
    /\ pc' = IF age' = PopAges \/ should_stop(chromosomes', survivors')
             THEN "finish" ELSE "run"
    /\ UNCHANGED <<prog, genes, answer, agesArg, call, ret, guarded>>

\* edith.py:189-207, get_survivor
get_survivor(ordered, default) ==
    IF ordered = <<>> THEN default ELSE ordered[1]

\* edith.py:444
SurvivorPop ==
    /\ prog = "edith" /\ pc = "finish"
    /\ answer' = get_survivor(SelectSeq(sorted(Column(survivors, "A"), "len_str"),
                                        LAMBDA x : TRUE),
                              IMPOSSIBLE)
    /\ pc' = "done"
    /\ UNCHANGED <<prog, genes, chromosomes, survivors, age, lineage,
                   survivorLineage, pool, expanded, skipped, agesArg, call,
                   ret, guarded>>

----------------------------------------------------------------------------

Init == InitFitness \/ InitEdith3 \/ InitEdith

Next ==
    \/ CallFitness \/ CallDominance
    \/ Raise3 \/ Seed3 \/ Age3 \/ Select3
    \/ Construct \/ AgePop \/ SurvivorPop

Spec == Init /\ [][Next]_vars

----------------------------------------------------------------------------
(* Vocabulary of the properties. *)

Programs == {"edith3", "edith"}

\* p is a prefix of s
IsPrefix(p, s) == \E k \in 0..Len(s) : p = SubSeq(s, 1, k)
IsProperPrefix(p, s) == IsPrefix(p, s) /\ p # s

\* what is left of s after its prefix p
After(p, s) == [k \in 1..(Len(s) - Len(p)) |-> s[Len(p) + k]]

\* the strings of the survivor pool
SurvivorStrings ==
    IF prog = "edith" THEN [k \in 1..Len(survivors) |-> survivors[k].A]
    ELSE survivors

\* the state right after round 0, before any age
AfterRoundZero ==
    \/ prog = "edith3" /\ pc = "loop" /\ age = 0
    \/ prog = "edith" /\ pc \in {"run", "finish"} /\ age = 0

\* a get_fitness call has returned without the divergence test firing
Returned == prog = "fitness" /\ pc = "returned" /\ ~guarded

\* a candidate of edith3.py that has closed
Closed3(c) == c[1] # UNFIT /\ c[2] = <<EMPTY, EMPTY>>

\* get_fitness applied along a chain of gene indices, from the empty seed state
RECURSIVE Replay3(_)
Replay3(chain) ==
    IF chain = <<>> THEN <<EMPTY, <<EMPTY, EMPTY>>>>
    ELSE LET before == Replay3(SubSeq(chain, 1, Len(chain) - 1))
         IN  get_fitness(before[1], before[2], genes[chain[Len(chain)]])

\* the A strings (side = 1) or B strings (side = 2) of a chain, concatenated
RECURSIVE Concat(_, _)
Concat(chain, side) ==
    IF chain = <<>> THEN EMPTY
    ELSE Concat(SubSeq(chain, 1, Len(chain) - 1), side)
            \o genes[chain[Len(chain)]][side]

----------------------------------------------------------------------------
(* The two searches as functions of the case, for the properties that      *)
(* compare the answers of different runs. They apply the same operators as *)
(* the actions above, to lists given as parameters.                        *)

\* edith3.py:53-58
seeds_of(gs) == [i \in 1..Len(gs) |-> get_fitness(EMPTY, NoDominance, gs[i])]

\* edith3.py:62 and 88, the strings of the closed chromosomes of a list
closed_of(chroms) ==
    Column(SelectSeq(chroms, LAMBDA c : is_kept(c) /\ is_survivor(c)), 1)

\* edith3.py:72-81, every parent with every gene
children_of(gs, parents) ==
    [k \in 1..(Len(parents) * Len(gs)) |->
        LET c == parents[((k - 1) \div Len(gs)) + 1]
        IN  get_fitness(c[1], c[2], gs[((k - 1) % Len(gs)) + 1])]

\* edith3.py:71-93: the survivors after `left` more ages; with prune FALSE
\* the condition of lines 78-79 is left out
RECURSIVE Ages3(_, _, _, _, _)
Ages3Extend(gs, kept, survs, left, prune) ==
    Ages3(gs, kept, survs \o closed_of(kept), left, prune)

Ages3(gs, chroms, survs, left, prune) ==
    IF left = 0 THEN survs
    ELSE Ages3Extend(gs,
             SelectSeq(children_of(gs,
                           SelectSeq(chroms,
                               LAMBDA c : ~prune \/ may_mutate(c, survs))),
                       LAMBDA c : is_kept(c)),
             survs, left - 1, prune)

Search3(gs, chroms, budget, prune) ==
    Ages3(gs, chroms, closed_of(chroms), budget, prune)

\* edith3.py:95-97
Pick3(ordered) == IF ordered # <<>> THEN ordered[1] ELSE IMPOSSIBLE

\* edith3.py:53-97, the answer of the case gs with `budget` ages
Answer3(gs, budget, prune) ==
    Pick3(sorted(Search3(gs, SelectSeq(seeds_of(gs), LAMBDA c : TRUE),
                         budget, prune),
                 "len_str"))

\* edith.py:170-172 and 232-249, the rows of the founders
founders_of(gs) ==
    [k \in 1..Len(SelectSeq(gs, same_first)) |->
        Row(SelectSeq(gs, same_first)[k][1], SelectSeq(gs, same_first)[k][2])]

\* edith.py:315-353 and 232-249, every chromosome joined with every gene
mutate_of(gs, chroms) ==
    [k \in 1..(Len(chroms) * Len(gs)) |->
        LET c == chroms[((k - 1) \div Len(gs)) + 1]
            g == gs[((k - 1) % Len(gs)) + 1]
        IN  Row(c.A \o g[1], c.B \o g[2])]

\* edith.py:397-407: the survivors after at most `left` more ages; with
\* stop FALSE the two breaks of lines 402-407 are left out
RECURSIVE AgesPop(_, _, _, _, _)
AgesPopFit(gs, open, survs, left, stop) ==
    IF stop /\ should_stop(open, survs) THEN survs
    ELSE AgesPop(gs, open, survs, left, stop)

AgesPopRemove(gs, alive, survs, left, stop) ==
    AgesPopFit(gs, SelectSeq(alive, LAMBDA r : ~is_fit(r)),
               survs \o SelectSeq(alive, is_fit), left, stop)

AgesPop(gs, chroms, survs, left, stop) ==
    IF left = 0 THEN survs
    ELSE AgesPopRemove(gs,
             SelectSeq(mutate_of(gs, chroms), LAMBDA r : ~is_unfit(r)),
             survs, left - 1, stop)

\* edith.py:151-173 and 386-409
SearchPop(gs, alive, n, stop) ==
    AgesPop(gs, SelectSeq(alive, LAMBDA r : ~is_fit(r)),
            SelectSeq(alive, is_fit), n, stop)

\* edith.py:438-444, the answer of the case gs with n ages
AnswerPop(gs, n, stop) ==
    get_survivor(sorted(Column(SearchPop(gs,
                                   SelectSeq(founders_of(gs),
                                             LAMBDA r : ~is_unfit(r)),
                                   n, stop),
                               "A"),
                        "len_str"),
                 IMPOSSIBLE)

\* edith3.py:96-97 and edith.py:189-207 on the set of the survivors'
\* strings: the first of them in the order (length, string), which is total
LeastOf(strings) ==
    IF strings = {} THEN IMPOSSIBLE
    ELSE CHOOSE x \in strings :
            \A y \in strings : x = y \/ LenLexLess(x, y)

\* the case gs with its gene pairs in the order p
Permute(gs, p) == [i \in 1..Len(gs) |-> gs[p[i]]]

----------------------------------------------------------------------------
(* C1. For a single pair with A = B, round 0 already yields a closed       *)
(* survivor whose string is exactly A, and the answer of the case is A.    *)
C1_SelfEqualPairSurvivesRoundZero ==
    (/\ prog \in Programs /\ Len(genes) = 1 /\ WellFormed(genes)
     /\ genes[1][1] = genes[1][2]) =>
        /\ AfterRoundZero => SurvivorStrings = <<genes[1][1]>>
        /\ pc = "done" => answer = genes[1][1]

(* C2. Closed case of get_fitness: when the divergence test does not fire  *)
(* and a = b, the result is not UNFIT, its string is sequence + a and both *)
(* dominances are empty. In edith.py the same row has both dominances FIT. *)
C2_ClosedCase ==
    /\ (Returned /\ CallA = CallB) =>
          /\ ret[1] # UNFIT
          /\ ret[1] = call.sequence \o CallA
          /\ ret[2] = <<EMPTY, EMPTY>>
    /\ (prog = "fitness" /\ pc = "dominance" /\ CallA = CallB) =>
          ret = <<FIT, FIT>>

C2_Witness ==
    /\ Returned /\ CallA = CallB
    /\ call.dominance[2] # EMPTY
    /\ call.sequence # EMPTY

(* C3 as stated. Open case of get_fitness: if a is a proper prefix of b    *)
(* the string becomes sequence + b with dominance ("", b[len(a):]); if b   *)
(* is a proper prefix of a it becomes sequence + a with (a[len(b):], "").  *)
C3_LongerIsAppended ==
    /\ (Returned /\ IsProperPrefix(CallA, CallB)) =>
          ret = <<call.sequence \o CallB, <<EMPTY, After(CallA, CallB)>>>>
    /\ (Returned /\ IsProperPrefix(CallB, CallA)) =>
          ret = <<call.sequence \o CallA, <<After(CallB, CallA), EMPTY>>>>

(* C3 amended. Open case of get_fitness: the shorter of a and b, their     *)
(* common part, is appended to the string, and the unmatched tail of the   *)
(* longer one is kept as the dominance on the longer side.                 *)
C3_ShorterIsAppended ==
    /\ (Returned /\ IsProperPrefix(CallA, CallB)) =>
          ret = <<call.sequence \o CallA, <<EMPTY, After(CallA, CallB)>>>>
    /\ (Returned /\ IsProperPrefix(CallB, CallA)) =>
          ret = <<call.sequence \o CallB, <<After(CallB, CallA), EMPTY>>>>

C3_Witness ==
    /\ Returned /\ IsProperPrefix(CallA, CallB)
    /\ call.dominance[1] # EMPTY
    /\ ret[2][2] # EMPTY

(* C4. The divergence test rejects exactly when                            *)
(* len(a) > 10 * max(1, len(sequence)); in particular the empty seed state *)
(* fused with a pair whose A has 1 to 10 characters is not rejected.       *)
C4_GuardIsTenTimesMaxOneLen ==
    (prog = "fitness" /\ pc = "returned") =>
        /\ guarded <=> Len(CallA) > 10 * Max(1, Len(call.sequence))
        /\ (/\ call.sequence = EMPTY
            /\ call.dominance = <<EMPTY, EMPTY>>
            /\ Len(call.new_genes[1]) \in 1..10) => ~guarded

(* C5. When the divergence test does not fire, get_fitness returns UNFIT   *)
(* if and only if neither a is a prefix of b nor b is a prefix of a; in    *)
(* edith.py a row is dropped as unfit under the same condition, so every   *)
(* row left after a fit has one string a prefix of the other.              *)
C5_UnfitIffNoPrefix ==
    /\ Returned =>
          (ret[1] = UNFIT <=>
              (~IsPrefix(CallA, CallB) /\ ~IsPrefix(CallB, CallA)))
    /\ (prog = "fitness" /\ pc = "dominance") =>
          ((ret[1] = UNFIT /\ ret[2] = UNFIT) <=>
              (~IsPrefix(CallA, CallB) /\ ~IsPrefix(CallB, CallA)))
    /\ prog = "edith" =>
          /\ \A k \in 1..Len(chromosomes) :
                \/ IsPrefix(chromosomes[k].A, chromosomes[k].B)
                \/ IsPrefix(chromosomes[k].B, chromosomes[k].A)
          /\ \A k \in 1..Len(survivors) :
                \/ IsPrefix(survivors[k].A, survivors[k].B)
                \/ IsPrefix(survivors[k].B, survivors[k].A)

C5_Witness ==
    /\ Returned /\ ret[1] = UNFIT
    /\ call.sequence # EMPTY
    /\ call.dominance # <<EMPTY, EMPTY>>

(* C6. The answer is chosen over all survivors collected in round 0 and in *)
(* every later round: it is one of them, and none of them is shorter, or   *)
(* equally long and lexicographically smaller.                             *)
C6_AnswerIsLeastSurvivor ==
    (prog \in Programs /\ pc = "done" /\ pool # {}) =>
        /\ answer \in pool
        /\ \A s \in pool :
              /\ Len(answer) <= Len(s)
              /\ Len(answer) = Len(s) => ~StrLess(s, answer)

\* edith3.py: survivors of two rounds, the answer among the later and
\* shorter ones, which hold another string of the same length
C6_Witness ==
    /\ prog = "edith3" /\ pc = "done"
    /\ \E j, k \in 1..Len(survivorLineage) :
          /\ Len(survivorLineage[j]) < Len(survivorLineage[k])
          /\ Replay3(survivorLineage[k])[1] = answer
          /\ Len(answer) < Len(Replay3(survivorLineage[j])[1])
    /\ \E s \in pool : s # answer /\ Len(s) = Len(answer)

\* the run is at a step that one of the program's actions takes
CanStep ==
    \/ prog = "edith3" /\ pc = "seed"
    \/ prog = "edith3" /\ pc = "loop" /\ age \in 0..ages
    \/ prog = "edith" /\ pc = "construct"
    \/ prog = "edith" /\ pc = "run" /\ age < PopAges
    \/ prog = "edith" /\ pc = "finish"

(* C7. The answer is IMPOSSIBLE if and only if the survivor pool is empty  *)
(* when the rounds finish; that outcome is a normal end of the run, and a  *)
(* run never stops before it has an answer.                                *)
C7_ImpossibleIffNoSurvivor ==
    (prog \in Programs /\ WellFormed(genes)) =>
        /\ pc = "done" => (answer = IMPOSSIBLE <=> (survivors = <<>> /\ pool = {}))
        /\ pc # "done" => CanStep

C7_Witness ==
    /\ prog = "edith3" /\ pc = "done" /\ age = ages
    /\ answer = IMPOSSIBLE
    /\ chromosomes # <<>>

(* C8. Every string in the survivor pool, and every answer other than      *)
(* IMPOSSIBLE, is the string of a closed candidate: applying the fusion    *)
(* along the chain of gene pairs that produced it, from the empty seed     *)
(* state, gives that string with both dominances empty, not UNFIT. In      *)
(* edith.py the chain's A strings and B strings concatenate to it.         *)
C8_SurvivorsAreClosed ==
    /\ (prog = "edith3" /\ pc # "done") =>
          \A k \in 1..Len(survivors) :
              /\ Replay3(survivorLineage[k]) = <<survivors[k], <<EMPTY, EMPTY>>>>
              /\ survivors[k] # UNFIT
    /\ (prog = "edith3" /\ pc = "done" /\ answer # IMPOSSIBLE) =>
          /\ answer # UNFIT
          /\ \E k \in 1..Len(survivorLineage) :
                Replay3(survivorLineage[k]) = <<answer, <<EMPTY, EMPTY>>>>
    /\ prog = "edith" =>
          \A k \in 1..Len(survivors) :
              /\ survivors[k].A = Concat(survivorLineage[k], 1)
              /\ survivors[k].A = Concat(survivorLineage[k], 2)
    /\ (prog = "edith" /\ pc = "done" /\ answer # IMPOSSIBLE) =>
          \E k \in 1..Len(survivors) : answer = survivors[k].A

C8_Witness ==
    /\ prog = "edith3" /\ pc = "done" /\ answer # IMPOSSIBLE
    /\ \E k \in 1..Len(survivorLineage) :
          /\ Len(survivorLineage[k]) >= 3
          /\ Replay3(survivorLineage[k])[1] = answer

(* C9. UNFIT is terminal: in no round, the first one after seeding         *)
(* included, is a candidate classified UNFIT combined with a gene again.   *)
C9_UnfitNeverExpanded ==
    /\ prog = "edith3" =>
          \A k \in 1..Len(expanded) : expanded[k][1] # UNFIT
    /\ prog = "edith" =>
          \A k \in 1..Len(expanded) : ~is_unfit(expanded[k])

(* C10. CLOSED is terminal: a candidate that has closed, its string being  *)
(* in the survivor pool, is not combined with a gene in any later round.   *)
C10_ClosedNeverExpanded ==
    /\ prog = "edith3" =>
          \A k \in 1..Len(expanded) : ~Closed3(expanded[k])
    /\ prog = "edith" =>
          \A k \in 1..Len(expanded) :
              /\ expanded[k].A # expanded[k].B
              /\ expanded[k].A_DOMINANCE # FIT
              /\ expanded[k].B_DOMINANCE # FIT

\* a round of edith3.py that combined some chromosome with the genes while
\* a candidate closed in the round before was still in the working set
C10_Witness ==
    /\ prog = "edith3" /\ age >= 2 /\ pc = "loop"
    /\ expanded # <<>>
    /\ \E k \in 1..Len(survivors) : Len(survivorLineage[k]) = age

(* C11. Pruning: in every round of edith3.py that starts with a non-empty  *)
(* survivor pool, every candidate combined with a gene is strictly shorter *)
(* than every survivor known at the start of that round.                   *)
C11_PrunedNotExpanded ==
    [][(prog = "edith3" /\ pc = "loop" /\ age' = age + 1 /\ survivors # <<>>) =>
          \A k \in 1..Len(expanded') : \A j \in 1..Len(survivors) :
              Len(expanded'[k][1]) < Len(survivors[j])]_vars

\* a round that combined some candidates and left out an open one that was
\* not shorter than the shortest survivor
C11_Witness ==
    /\ prog = "edith3" /\ pc = "loop"
    /\ expanded # <<>>
    /\ \E k \in 1..Len(skipped) :
          /\ skipped[k][1] # UNFIT
          /\ ~Closed3(skipped[k])

\* a chain of gene indices without its last index
Front(chain) == SubSeq(chain, 1, Len(chain) - 1)

(* C12. Monotonic growth: a fusion step whose result is not UNFIT makes    *)
(* the string strictly longer, the old string being a proper prefix of the *)
(* new one; gene tokens are non-empty. In the searches every candidate     *)
(* that is not UNFIT is strictly longer than the candidate it came from.   *)
C12_BuiltGrows ==
    /\ (prog = "fitness" /\ pc = "returned" /\ ret[1] # UNFIT) =>
          /\ Len(ret[1]) > Len(call.sequence)
          /\ IsProperPrefix(call.sequence, ret[1])
    /\ (prog = "edith3" /\ pc # "seed") =>
          \A k \in 1..Len(chromosomes) :
              chromosomes[k][1] # UNFIT =>
                  Len(chromosomes[k][1]) > Len(Replay3(Front(lineage[k]))[1])
    /\ prog = "edith" =>
          \A k \in 1..Len(chromosomes) :
              /\ Len(chromosomes[k].A) > Len(Concat(Front(lineage[k]), 1))
              /\ Len(chromosomes[k].B) > Len(Concat(Front(lineage[k]), 2))

\* an open candidate of edith3.py made from a candidate that was itself
\* made from a gene and was not UNFIT
C12_Witness ==
    /\ prog = "edith3" /\ pc = "loop"
    /\ \E k \in 1..Len(chromosomes) :
          /\ Len(lineage[k]) >= 3
          /\ ~Closed3(chromosomes[k])
          /\ Replay3(Front(lineage[k]))[1] # UNFIT

(* C13. Residue invariant: every result of get_fitness, and every          *)
(* candidate in the working set of edith3.py, has at least one of its two  *)
(* dominances empty; both are empty exactly when the candidate is the      *)
(* UNFIT placeholder or has closed (a = b in the call; in the search, the  *)
(* candidate is one of those collected as survivors).                      *)
C13_OneResidueEmpty ==
    /\ (prog = "fitness" /\ pc = "returned") =>
          /\ ret[2][1] = EMPTY \/ ret[2][2] = EMPTY
          /\ ret[2] = NoDominance <=> (ret[1] = UNFIT \/ CallA = CallB)
    /\ prog = "edith3" =>
          \A k \in 1..Len(chromosomes) :
              /\ chromosomes[k][2][1] = EMPTY \/ chromosomes[k][2][2] = EMPTY
              /\ chromosomes[k][2] = NoDominance <=>
                    \/ chromosomes[k][1] = UNFIT
                    \/ \E j \in 1..Len(survivorLineage) :
                          survivorLineage[j] = lineage[k]

\* a working set holding a closed candidate and an open one with the same
\* string
C13_Witness ==
    /\ prog = "edith3" /\ pc = "loop"
    /\ \E j, k \in 1..Len(chromosomes) :
          /\ chromosomes[j][1] = chromosomes[k][1]
          /\ chromosomes[k][1] # UNFIT
          /\ chromosomes[j][2] = NoDominance
          /\ chromosomes[k][2] # NoDominance

(* C14. Round-count bound: the number of ages performed never exceeds the  *)
(* configured number: the constant ages of edith3.py, and in edith.py the  *)
(* ages argument given to run().                                           *)
C14_RoundsWithinAges ==
    /\ prog = "edith3" => age <= ages
    /\ prog = "edith" => age <= agesArg

(* C15. Order independence: the answer of a case is the answer of the same *)
(* gene pairs given in any other order, the number of ages being the same. *)
C15_OrderIndependent ==
    /\ (prog = "edith3" /\ pc = "done") =>
          \A p \in Permutations(1..Len(genes)) :
              Answer3(Permute(genes, p), ages, TRUE) = answer
    /\ (prog = "edith" /\ pc = "done") =>
          \A p \in Permutations(1..Len(genes)) :
              AnswerPop(Permute(genes, p), Len(genes), TRUE) = answer

\* a case of three different gene pairs that has a fusion, and another
\* survivor as short as the answer
C15_Witness ==
    /\ prog = "edith3" /\ pc = "done" /\ answer # IMPOSSIBLE
    /\ Len(genes) = 3
    /\ genes[1] # genes[2] /\ genes[1] # genes[3] /\ genes[2] # genes[3]
    /\ \E x \in pool : x # answer /\ Len(x) = Len(answer)

(* C16. A gene-pair line that does not split into exactly two tokens makes *)
(* the case fail with an error: no round of the search is run on it and no *)
(* answer is given, so that an extra token is never silently dropped.      *)
C16_MalformedLineFails ==
    (prog = "edith3" /\ ~WellFormed(genes)) =>
        /\ pc \in {"seed", "error"}
        /\ chromosomes = <<>>
        /\ answer = EMPTY

\* the pairs ("ab", "a") and ("cd", "c")
NoFusionCase == << <<Str_ab, Str_a>>, <<Str_cd, Str_c>> >>

(* C17. For the pairs ("ab", "a") and ("cd", "c") no candidate ever        *)
(* closes and the answer is IMPOSSIBLE, in the runs of both programs and   *)
(* for every positive number of ages.                                      *)
C17_NoFusionIsImpossible ==
    (prog \in Programs /\ genes = NoFusionCase) =>
        /\ pool = {} /\ survivors = <<>>
        /\ \A k \in 1..Len(chromosomes) :
              IF prog = "edith3" THEN ~Closed3(chromosomes[k])
              ELSE ~is_fit(chromosomes[k])
        /\ pc = "done" =>
              /\ answer = IMPOSSIBLE
              /\ \A n \in 1..MaxBudget :
                    /\ Answer3(genes, n, TRUE) = IMPOSSIBLE
                    /\ AnswerPop(genes, n, TRUE) = IMPOSSIBLE

\* the round of edith3.py on that case that combined its open candidates
\* with the genes and was left with none
C17_Witness ==
    /\ prog = "edith3" /\ genes = NoFusionCase /\ pc = "loop"
    /\ \E k \in 1..Len(expanded) : expanded[k][1] # UNFIT
    /\ chromosomes = <<>>

(* C18. Pruning is answer-preserving: for every case, the age loop of      *)
(* edith3.py gives the same answer as the same loop with the condition of  *)
(* lines 78-79 removed, every candidate that is not UNFIT being combined   *)
(* with every gene in every age; this for the 8 ages of the program and    *)
(* for every number of ages up to half of that.                            *)
C18_PruningPreservesAnswer ==
    (prog = "edith3" /\ pc = "done") =>
        /\ LeastOf(Range(Search3(genes, SelectSeq(seeds_of(genes),
                                                  LAMBDA c : TRUE),
                                 ages, FALSE))) = answer
        /\ \A n \in 1..(ages \div 2) :
              LeastOf(Range(Search3(genes, SelectSeq(seeds_of(genes),
                                                    LAMBDA c : TRUE),
                                   n, FALSE)))
                  = Answer3(genes, n, TRUE)

\* a round of edith3.py left out an open candidate that one more gene
\* would have closed
C18_Witness ==
    /\ prog = "edith3" /\ pc = "loop"
    /\ \E k \in 1..Len(skipped) : \E i \in 1..Len(genes) :
          /\ skipped[k][1] # UNFIT /\ ~Closed3(skipped[k])
          /\ Closed3(get_fitness(skipped[k][1], skipped[k][2], genes[i]))

(* C19. Early termination is answer-preserving: Sequence.run leaves its    *)
(* loop before the last age only when the working set is empty or some     *)
(* survivor is strictly shorter than every chromosome of the working set,  *)
(* and the answer is the one the loop gives when it runs all its ages.     *)
C19_EarlyStopPreservesAnswer ==
    /\ (prog = "edith" /\ pc = "finish" /\ age < PopAges) =>
          \/ chromosomes = <<>>
          \/ \E j \in 1..Len(survivors) : \A k \in 1..Len(chromosomes) :
                Len(survivors[j].A) < Len(chromosomes[k].A)
    /\ (prog = "edith" /\ pc = "done") =>
          AnswerPop(genes, Len(genes), FALSE) = answer

\* a run that left the loop before its last age with chromosomes still in
\* the working set, one of which a gene would have made fit
C19_Witness ==
    /\ prog = "edith" /\ pc = "done" /\ age < PopAges
    /\ \E k \in 1..Len(chromosomes) : \E i \in 1..Len(genes) :
          is_fit(Row(chromosomes[k].A \o genes[i][1],
                     chromosomes[k].B \o genes[i][2]))

\* the characters of the gene pairs of the case
InputChars == UNION {Range(genes[i][1]) \cup Range(genes[i][2]) : i \in 1..Len(genes)}

(* C20. Soundness: every answer other than IMPOSSIBLE is a genuine fusion: *)
(* some non-empty chain of gene pairs has the answer both as the           *)
(* concatenation of its A strings and as that of its B strings, and the    *)
(* answer holds no character that is not in the gene pairs. For every      *)
(* candidate that is not UNFIT, the string followed by the A dominance is  *)
(* the concatenation of the A strings of its chain, and likewise for B.    *)
C20_AnswerIsFusion ==
    (prog \in Programs /\ WellFormed(genes)) =>
        /\ (pc = "done" /\ answer # IMPOSSIBLE) =>
              /\ \E k \in 1..Len(survivorLineage) :
                    /\ survivorLineage[k] # <<>>
                    /\ answer = Concat(survivorLineage[k], 1)
                    /\ answer = Concat(survivorLineage[k], 2)
              /\ Range(answer) \subseteq InputChars
        /\ prog = "edith3" =>
              \A k \in 1..Len(chromosomes) :
                  chromosomes[k][1] # UNFIT =>
                      /\ chromosomes[k][1] \o chromosomes[k][2][1]
                            = Concat(lineage[k], 1)
                      /\ chromosomes[k][1] \o chromosomes[k][2][2]
                            = Concat(lineage[k], 2)
        /\ prog = "edith" =>
              \A k \in 1..Len(chromosomes) :
                  /\ chromosomes[k].A = Concat(lineage[k], 1)
                  /\ chromosomes[k].B = Concat(lineage[k], 2)

====
